---- MODULE Spec2Model ----
(***************************************************************************)
(* The reconciliation engine of the metrics-cluster operator               *)
(* (src/operator/operator.go): reconcileMetricsCluster,                    *)
(* reconcileDeployment, findPrometheusTarURL and the manifest builders,    *)
(* run against an API store of MetricsClusters, Deployments, Services and  *)
(* Routes.  A delivery of a key to a reconciler is one action.             *)
(***************************************************************************)
EXTENDS Integers, Sequences, FiniteSets, TLC

\* ------------------------------------------------------------------ bounds

\* External events (cluster created/deleted, job metadata rewritten,
\* operator restarted with other flags) in one behaviour.
MaxExternal == 3

\* ---------------------------------------------------------------- universe

ClusterNames == {"a", "b", "app"}
URLs == {"u1", "u2", "u3"}
\* The URL lists a MetricsCluster is declared with (cluster.Spec.URLs).
\* Nothing keeps a list from naming a job twice.
URLLists == {<<"u1">>, <<"u2", "u1", "u3">>, <<"u1", "u1">>}
Declarable(c) ==
    CASE c = "a" -> {<<"u1">>, <<"u2", "u1", "u3">>}
      [] c = "b" -> {<<"u1">>}
      [] c = "app" -> {<<"u1", "u1">>}
\* The jobs whose prowjob.json is rewritten.
Rewritable == {"u1"}
\* Values of the --prometheus-image flag.
Images == {"prometheus:v1", "prometheus:v2"}
\* Completion times a prowjob.json can carry; 0 is an absent completionTime.
Times == 0..2

\* The goroutines that call findPrometheusTarURL at the same time.
Callers == {"w1", "w2", "w3"}

NoObj == [absent |-> TRUE]
\* No reconcileDeployment is in flight; how the last one, for name, ended.
Idle(how, name) ==
    [pc |-> "idle", name |-> name, deployment |-> NoObj, listed |-> {},
     last |-> how]
EmptyMap == [k \in {} |-> ""]

Range(s) == {s[i] : i \in DOMAIN s}
Put(m, k, v) == [x \in DOMAIN m \cup {k} |-> IF x = k THEN v ELSE m[x]]
Del(m, k) == [x \in DOMAIN m \ {k} |-> m[x]]

\* ------------------------------------------------------------------- state

VARIABLES
    clusters,        \* MetricsCluster store: name -> [urls] or NoObj
    deployments,     \* Deployment store: name -> object or NoObj
    services,        \* names of the Services that exist
    routes,          \* names of the Routes that exist
    prometheusURLs,  \* the process-wide cache: job URL -> tar URL
    PrometheusImage, \* o.PrometheusImage of the running process
    completion,      \* job URL -> status.completionTime served in prowjob.json
    external,        \* number of external events so far
    lastOp,          \* record of the last delivery (what the log lines tell)
    prometheusLock,  \* the caller that holds the mutex of the cache, or ""
    callerPC,        \* caller -> its position in findPrometheusTarURL
    callerURL,       \* caller -> the jobURL argument of its call
    succeeded,       \* job URL -> the callers whose lookup for it succeeded
    collector        \* the reconcileDeployment in flight: its position, the
                     \* deployment it read and the clusters it listed

\* The positions of the calls of findPrometheusTarURL in flight.
callVars == <<prometheusLock, callerPC, callerURL, succeeded>>
\* What the handlers in flight hold.
flightVars == <<callVars, collector>>
storeVars == <<clusters, deployments, services, routes, PrometheusImage,
               completion, external, lastOp, collector>>

vars == <<clusters, deployments, services, routes, prometheusURLs,
          PrometheusImage, completion, external, lastOp, flightVars>>

\* ---------------------------------------------------------- identity scheme

\* fmt.Sprintf("%x", sha256.Sum256(url)[:6]) on the URLs of the universe.
Hex(url) ==
    CASE url = ""   -> "e3b0c44298fc"
      [] url = "u1" -> "bb82030dbc2b"
      [] url = "u2" -> "6ca202c88e54"
      [] url = "u3" -> "011e39efe225"

\* A variant that names the Store Service as the Aggregation Service.
thanosStoreServiceNameQuery(c) == <<"query-", c>>

\* fmt.Sprintf(prefix + "%s", s): names are kept as <<prefix, s>>.
prometheusDeploymentName(job) == <<"prometheus-", Hex(job.url)>>
thanosStoreServiceName(c) == <<"store-", c>>
thanosQueryDeploymentName(c) == <<"query-", c>>
thanosQueryServiceName(c) == <<"query-", c>>
thanosQueryRouteName(c) == <<"query-", c>>

StatusURLs == URLs \cup {""}
DeploymentNames ==
    {<<"prometheus-", Hex(s)>> : s \in StatusURLs}
        \cup {thanosQueryDeploymentName(c) : c \in ClusterNames}

\* ------------------------------------------------------------ manifests

\* time.Time.UTC().Format(time.RFC3339) on the times of the universe.
FormatRFC3339(t) ==
    CASE t = 0 -> "0001-01-01T00:00:00Z"
      [] t = 1 -> "2020-06-01T10:00:00Z"
      [] t = 2 -> "2020-06-01T11:30:00Z"

\* job.Status.CompletionTime is a *metav1.Time: calling UTC() through a nil
\* pointer panics.
ManifestPanics(job) == job.completion = 0

prometheusDeploymentManifest(job, image) ==
    LET name == prometheusDeploymentName(job)
        ann == [url |-> job.url,
                started |-> FormatRFC3339(job.started),
                completed |-> FormatRFC3339(job.completion)]
    IN [name |-> name,
        labels |-> [k \in {"app"} |-> "prometheus"],
        annotations |-> ann,
        spec |-> [image |-> image,
                  promtar |-> job.tar,
                  prowURL |-> job.url,
                  templateLabels |->
                      [k \in {"app", "prometheus"} |->
                          IF k = "app" THEN "prometheus" ELSE name[2]],
                  templateAnnotations |-> ann]]

thanosQueryDeploymentManifest(c) ==
    [name |-> thanosQueryDeploymentName(c),
     labels |-> [k \in {"app"} |-> "thanos-query"],
     annotations |-> EmptyMap,
     spec |-> [image |-> "thanos:v0",
               promtar |-> "",
               prowURL |-> "",
               templateLabels |->
                   [k \in {"app", "cluster"} |->
                       IF k = "app" THEN "thanos-query" ELSE c],
               templateAnnotations |-> EmptyMap]]

\* ------------------------------------------------- inputs of one delivery

\* A call made by a reconciler: <<operation, kind, name>>.  One delivery
\* meets at most one trouble: the call that fails in it (NoTrouble: none).
NoTrouble == <<"none", "", <<"", "">>>>
HttpGet(u) == <<"http.Get", "prowjob.json", <<"", u>>>>
\* json Decode errors: a syntax error fills in nothing; a type error in
\* status.url fills in every other field; a type error elsewhere fills in
\* all the fields the manifest reads.
DecodeSyntax(u) == <<"Decode", "syntax", <<"", u>>>>
DecodeURL(u) == <<"Decode", "status.url", <<"", u>>>>
DecodeOther(u) == <<"Decode", "other", <<"", u>>>>
Discover(u) == <<"getTarURLFromProw", "tar", <<"", u>>>>
Api(op, kind, name) == <<op, kind, name>>
\* Delete answered not-found: another actor removed the object first.
DeleteGone(name) == <<"Delete:NotFound", "Deployment", name>>

Writes == {"Create", "Update", "Delete"}
WriteCalls(calls) == {i \in DOMAIN calls : calls[i][1] \in Writes}

\* --------------------------------------------------- metadata resolution

\* The ProwJob decoded from prowjob.json (lines 233-242).  The document of
\* job URL u carries status.url = u, a start time and completion[u].
decodeProwJob(u, trouble) ==
    IF trouble = DecodeSyntax(u)
    THEN [url |-> "", started |-> 0, completion |-> 0]
    ELSE IF trouble = DecodeURL(u)
    THEN [url |-> "", started |-> 1, completion |-> completion[u]]
    ELSE [url |-> u, started |-> 1, completion |-> completion[u]]

\* The archive the artifact listing of a job URL leads to.
getTarURLFromProw(jobURL) ==
    CASE jobURL = "u1" -> "gcs/u1/prometheus.tar"
      [] jobURL = "u2" -> "gcs/u2/prometheus.tar"
      [] jobURL = "u3" -> "gcs/u3/prometheus.tar"

\* A variant that makes the lookup without reading the cache first.
findPrometheusTarURLUncached(jobURL, cache, trouble) ==
    IF trouble = Discover(jobURL)
    THEN [url |-> "", err |-> TRUE, cache |-> cache, looked |-> TRUE]
    ELSE [url |-> getTarURLFromProw(jobURL), err |-> FALSE,
          cache |-> Put(cache, jobURL, getTarURLFromProw(jobURL)),
          looked |-> TRUE]

\* A variant that stores an entry for a lookup that failed.
findPrometheusTarURLStoresFailure(jobURL, cache, trouble) ==
    IF jobURL \in DOMAIN cache
    THEN [url |-> cache[jobURL], err |-> FALSE, cache |-> cache,
          looked |-> FALSE]
    ELSE IF trouble = Discover(jobURL)
    THEN [url |-> "", err |-> TRUE, cache |-> Put(cache, jobURL, ""),
          looked |-> TRUE]
    ELSE [url |-> getTarURLFromProw(jobURL), err |-> FALSE,
          cache |-> Put(cache, jobURL, getTarURLFromProw(jobURL)),
          looked |-> TRUE]

\* findPrometheusTarURL: the cache is read first, the lookup is made on a
\* miss only, and only a successful lookup is stored.
findPrometheusTarURL(jobURL, cache, trouble) ==
    IF jobURL \in DOMAIN cache
    THEN [url |-> cache[jobURL], err |-> FALSE, cache |-> cache,
          looked |-> FALSE]
    ELSE IF trouble = Discover(jobURL)
    THEN [url |-> "", err |-> TRUE, cache |-> cache, looked |-> TRUE]
    ELSE [url |-> getTarURLFromProw(jobURL), err |-> FALSE,
          cache |-> Put(cache, jobURL, getTarURLFromProw(jobURL)),
          looked |-> TRUE]

\* ------------------------------------------------ reconcileMetricsCluster

\* The running state of one delivery: the stores as this delivery has left
\* them so far, the calls made, the job URLs that reached the workload Get,
\* and "running" until the handler returns an error or panics.
Call(st, call) == [st EXCEPT !.calls = Append(@, call)]
\* A get that is answered (errors.IsNotFound or no error): the not-found
\* answers of the delivery are kept.
Got(st, get, present) ==
    [Call(st, get) EXCEPT !.notFound = IF present THEN @ ELSE @ \cup {get}]
ReturnError(st) == [st EXCEPT !.result = "error"]
Panic(st) == [st EXCEPT !.result = "panic"]

\* A variant that never sees the error of http.Get.
prowInfoErrIgnored(url, trouble) == FALSE

\* Lines 234-235: err != nil after http.Get.
prowInfoErr(url, trouble) == trouble = HttpGet(url)

\* A variant that returns the error of http.Get instead of continuing.
prowInfoFailedReturns(st) == ReturnError(st)

\* A variant that makes the fetch once more before it gives up.
prowInfoFailedRetries(st) == Call(st, st.calls[Len(st.calls)])

\* Lines 236-237: http.Get failed: log and continue with the next URL.
prowInfoFailed(st) == st

\* Line 244-247: no tar URL: log and continue with the next URL.
tarURLFailed(st) == st

\* Lines 266-267: the observed object takes the desired Spec, and the
\* cluster's label is set in the template label map of that Spec.  The Spec
\* is copied by value, so the map is the one the desired manifest holds.
sharedTemplateLabels(desired, clusterName) ==
    Put(desired.spec.templateLabels, clusterName, "true")

\* A variant that logs a failed update and goes on, as the deleted path does.
updateFailedLogged(st) == st

\* Lines 272-273: a failed update of a Storage Workload returns the error.
updateFailed(st) == ReturnError(st)

\* Lines 265-277: the workload exists.
updateDeployment(st, observed, desired, clusterName, trouble) ==
    LET labels == sharedTemplateLabels(desired, clusterName)
        \* prometheusDeployment.Spec and desiredPrometheusDeployment.Spec
        \* after line 267: both read the shared map.
        newSpec == [desired.spec EXCEPT !.templateLabels = labels]
        desiredSpec == [desired.spec EXCEPT !.templateLabels = labels]
        differs == \/ newSpec # desiredSpec
                   \/ observed.labels # desired.labels
                   \/ observed.annotations # desired.annotations
        upd == Api("Update", "Deployment", desired.name)
    IN IF ~differs THEN st
       ELSE IF trouble = upd THEN updateFailed(Call(st, upd))
       ELSE [Call(st, upd) EXCEPT
                !.deps[desired.name] = [observed EXCEPT !.spec = newSpec]]

\* Lines 278-286: the workload is absent.
createDeployment(st, desired, clusterName, trouble) ==
    LET obj == [desired EXCEPT
                   !.spec.templateLabels = Put(@, clusterName, "true")]
        cr == Api("Create", "Deployment", desired.name)
    IN IF trouble = cr THEN ReturnError(Call(st, cr))
       ELSE [Call(st, cr) EXCEPT !.deps[desired.name] = obj]

\* Lines 249-286: converge the Storage Workload of one resolved job.
convergeDeployment(st, url, job, clusterName, trouble) ==
    LET name == prometheusDeploymentName(job)
        get == Api("Get", "Deployment", name)
        s0 == [Call(st, get) EXCEPT !.reached = Append(@, url)]
        s1 == [Got(st, get, st.deps[name] # NoObj) EXCEPT
                  !.reached = Append(@, url)]
    IN IF trouble = get THEN ReturnError(s0)
       ELSE IF ManifestPanics(job) THEN Panic(s1)
       ELSE LET desired == prometheusDeploymentManifest(job, PrometheusImage)
            IN IF s1.deps[name] # NoObj
               THEN updateDeployment(s1, s1.deps[name], desired,
                                     clusterName, trouble)
               ELSE createDeployment(s1, desired, clusterName, trouble)

\* Lines 231-287: one iteration of the loop over cluster.Spec.URLs.
reconcileURL(st, url, clusterName, trouble) ==
    LET s1 == Call(st, HttpGet(url))
    IN IF prowInfoErr(url, trouble) THEN prowInfoFailed(s1)
       ELSE
         LET prowJob == decodeProwJob(url, trouble)
             found == findPrometheusTarURL(url, s1.cache, trouble)
             s2 == [(IF found.looked THEN Call(s1, Discover(url)) ELSE s1)
                       EXCEPT !.cache = found.cache,
                              !.decodeErrors =
                                  IF trouble \in {DecodeSyntax(url),
                                                  DecodeURL(url),
                                                  DecodeOther(url)}
                                  THEN @ \cup {trouble} ELSE @]
         IN IF found.err THEN tarURLFailed(s2)
            ELSE convergeDeployment(
                     s2, url,
                     [url |-> prowJob.url, started |-> prowJob.started,
                      completion |-> prowJob.completion, tar |-> found.url],
                     clusterName, trouble)

RECURSIVE reconcileURLs(_, _, _, _, _)
reconcileURLs(st, urls, i, clusterName, trouble) ==
    IF i > Len(urls) \/ st.result # "running" THEN st
    ELSE reconcileURLs(reconcileURL(st, urls[i], clusterName, trouble),
                       urls, i + 1, clusterName, trouble)

\* A variant that logs a failed create and goes on with the next sub-step.
createFailedContinues(st) == st

\* Lines 303-304, 324-325, 345-346, 366-367: a failed create of a
\* per-cluster object returns the error.
createFailed(st) == ReturnError(st)

\* Lines 289-308.
ensureStoreService(st, c, trouble) ==
    LET name == thanosStoreServiceName(c)
        get == Api("Get", "Service", name)
        cr == Api("Create", "Service", name)
        s1 == Got(st, get, name \in st.svcs)
    IN IF st.result # "running" THEN st
       ELSE IF trouble = get THEN ReturnError(Call(st, get))
       ELSE IF name \in st.svcs THEN s1
       ELSE IF trouble = cr THEN createFailed(Call(s1, cr))
       ELSE [Call(s1, cr) EXCEPT !.svcs = @ \cup {name}]

\* Lines 310-329.
ensureQueryDeployment(st, c, trouble) ==
    LET name == thanosQueryDeploymentName(c)
        get == Api("Get", "Deployment", name)
        cr == Api("Create", "Deployment", name)
        s1 == Got(st, get, st.deps[name] # NoObj)
    IN IF st.result # "running" THEN st
       ELSE IF trouble = get THEN ReturnError(Call(st, get))
       ELSE IF st.deps[name] # NoObj THEN s1
       ELSE IF trouble = cr THEN createFailed(Call(s1, cr))
       ELSE [Call(s1, cr) EXCEPT
                !.deps[name] = thanosQueryDeploymentManifest(c)]

\* Lines 331-350.
ensureQueryService(st, c, trouble) ==
    LET name == thanosQueryServiceName(c)
        get == Api("Get", "Service", name)
        cr == Api("Create", "Service", name)
        s1 == Got(st, get, name \in st.svcs)
    IN IF st.result # "running" THEN st
       ELSE IF trouble = get THEN ReturnError(Call(st, get))
       ELSE IF name \in st.svcs THEN s1
       ELSE IF trouble = cr THEN createFailed(Call(s1, cr))
       ELSE [Call(s1, cr) EXCEPT !.svcs = @ \cup {name}]

\* Lines 352-371.
ensureQueryRoute(st, c, trouble) ==
    LET name == thanosQueryRouteName(c)
        get == Api("Get", "Route", name)
        cr == Api("Create", "Route", name)
        s1 == Got(st, get, name \in st.routes)
    IN IF st.result # "running" THEN st
       ELSE IF trouble = get THEN ReturnError(Call(st, get))
       ELSE IF name \in st.routes THEN s1
       ELSE IF trouble = cr THEN createFailed(Call(s1, cr))
       ELSE [Call(s1, cr) EXCEPT !.routes = @ \cup {name}]

\* A variant that ensures the External Route first.
reconcileExistingRouteFirst(st, c, trouble) ==
    ensureQueryService(
        ensureQueryDeployment(
            ensureStoreService(
                ensureQueryRoute(
                    reconcileURLs(st, clusters[c].urls, 1, c, trouble),
                    c, trouble),
                c, trouble),
            c, trouble),
        c, trouble)

\* Lines 230-373: the cluster exists.
reconcileExisting(st, c, trouble) ==
    ensureQueryRoute(
        ensureQueryService(
            ensureQueryDeployment(
                ensureStoreService(
                    reconcileURLs(st, clusters[c].urls, 1, c, trouble),
                    c, trouble),
                c, trouble),
            c, trouble),
        c, trouble)

\* Line 204: cluster := &api.MetricsCluster{}.  A Get that answers
\* not-found fills nothing in, so cluster.Name is the zero string on the
\* deleted path and the requested name once the object was read.
clusterName(key, found) == IF found THEN key ELSE ""

\* The order in which a List returns the deployments.
RECURSIVE SeqOf(_)
SeqOf(S) ==
    IF S = {} THEN <<>>
    ELSE LET x == CHOOSE y \in S : TRUE IN <<x>> \o SeqOf(S \ {x})
DeploymentList == SeqOf(DeploymentNames)

\* Lines 215-223: one listed deployment on the deleted path.  A failed
\* update is logged and the loop goes on.
removeReference(st, name, clusterNm, trouble) ==
    LET d == st.deps[name]
        upd == Api("Update", "Deployment", name)
    IN IF d = NoObj \/ clusterNm \notin DOMAIN d.spec.templateLabels THEN st
       ELSE IF trouble = upd THEN Call(st, upd)
       ELSE [Call(st, upd) EXCEPT
                !.deps[name] =
                    [d EXCEPT !.spec.templateLabels = Del(@, clusterNm)]]

RECURSIVE removeReferences(_, _, _, _)
removeReferences(st, i, clusterNm, trouble) ==
    IF i > Len(DeploymentList) THEN st
    ELSE removeReferences(
             removeReference(st, DeploymentList[i], clusterNm, trouble),
             i + 1, clusterNm, trouble)

\* Lines 207-226: the cluster is gone.
reconcileDeleted(st, key, trouble) ==
    LET list == Api("List", "Deployment", <<"", "">>)
        s1 == Call(st, list)
    IN IF trouble = list THEN ReturnError(s1)
       ELSE removeReferences(s1, 1, clusterName(key, FALSE), trouble)

\* The run of a delivery of key: the MetricsCluster is read, then one of
\* the two paths is taken.
runMetricsCluster(key, trouble) ==
    LET getC == Api("Get", "MetricsCluster", <<"", key>>)
        st0 == [deps |-> deployments, svcs |-> services,
                routes |-> routes, cache |-> prometheusURLs,
                calls |-> <<getC>>, reached |-> <<>>, notFound |-> {},
                decodeErrors |-> {}, result |-> "running"]
    IN IF trouble = getC THEN ReturnError(st0)
       ELSE IF clusters[key] # NoObj
       THEN reconcileExisting(st0, key, trouble)
       ELSE reconcileDeleted([st0 EXCEPT !.notFound = {getC}], key, trouble)

\* The troubles a delivery can run into: a call it makes fails, or the
\* document an http.Get returned does not decode.  Until the trouble is
\* met the delivery runs as it does without trouble, so these are the calls
\* of that run.
Troubles(calls) ==
    {NoTrouble} \cup Range(calls)
        \cup UNION {{DecodeSyntax(u), DecodeURL(u), DecodeOther(u)} :
                       u \in {v \in URLs : HttpGet(v) \in Range(calls)}}
        \cup {DeleteGone(n) : n \in {m \in DeploymentNames :
                                 Api("Delete", "Deployment", m) \in Range(calls)}}

Outcome(st) == IF st.result = "running" THEN "nil" ELSE st.result

\* The cluster whose delivery came right before this one and ended nil
\* without trouble on the exists path ("" if there is none).
PrevConverged ==
    IF /\ lastOp.op = "reconcileMetricsCluster"
       /\ lastOp.found
       /\ lastOp.result = "nil"
       /\ lastOp.trouble = NoTrouble
    THEN lastOp.cluster ELSE ""

\* Lines 201-374, one delivery of a cluster key.  A panic ends the process;
\* the process that replaces it starts with an empty cache.
deliverMetricsCluster(key, trouble) ==
      \E out \in {runMetricsCluster(key, trouble)} :
        LET getC == Api("Get", "MetricsCluster", <<"", key>>)
            found == clusters[key] # NoObj
        IN /\ trouble # NoTrouble => external < MaxExternal
           /\ external' = IF trouble # NoTrouble THEN external + 1 ELSE external
           /\ deployments' = out.deps
           /\ services' = out.svcs
           /\ routes' = out.routes
           /\ prometheusURLs' =
                  IF out.result = "panic" THEN EmptyMap ELSE out.cache
           /\ lastOp' = [op |-> "reconcileMetricsCluster",
                         cluster |-> key,
                         deployment |-> <<"", "">>,
                         found |-> found /\ trouble # getC,
                         trouble |-> trouble,
                         result |-> Outcome(out),
                         calls |-> out.calls,
                         notFound |-> out.notFound,
                         reached |-> out.reached,
                         prev |-> PrevConverged]
           /\ UNCHANGED <<clusters, PrometheusImage, completion>>
           /\ UNCHANGED flightVars

reconcileMetricsCluster(key) ==
    \E trouble \in Troubles(runMetricsCluster(key, NoTrouble).calls) :
        deliverMetricsCluster(key, trouble)

\* ---------------------------------------------------- reconcileDeployment

\* A variant that tests the clusters that do not exist.
isReferencedInverted(deployment, listed) ==
    \E c \in ClusterNames \ listed : c \in DOMAIN deployment.spec.templateLabels

\* Lines 179-185: a deployment is referenced when the name of some listed
\* cluster is a key of its pod-template labels.
isReferenced(deployment, listed) ==
    \E c \in listed : c \in DOMAIN deployment.spec.templateLabels

\* A variant that returns the not-found answer of the delete as an error.
deleteNotFoundReturns(st) == ReturnError(st)

\* Lines 189-192: the delete answered not-found: log and return nil.
deleteNotFound(st) == st

\* Lines 170-199.
reconcilePrometheusDeployment(st, name, trouble) ==
    LET list == Api("List", "MetricsCluster", <<"", "">>)
        del == Api("Delete", "Deployment", name)
        s1 == Call(st, list)
        listed == {c \in ClusterNames : clusters[c] # NoObj}
    IN IF trouble = list THEN ReturnError(s1)
       ELSE IF isReferenced(st.deps[name], listed) THEN s1
       ELSE IF trouble = del THEN ReturnError(Call(s1, del))
       ELSE IF trouble = DeleteGone(name)
       THEN deleteNotFound([Call(Call(s1, del), DeleteGone(name)) EXCEPT
                               !.deps[name] = NoObj])
       ELSE [Call(s1, del) EXCEPT !.deps[name] = NoObj]

\* A variant that hands every deployment to reconcilePrometheusDeployment.
runDeploymentAnyLabel(name, trouble) ==
    LET get == Api("Get", "Deployment", name)
        st0 == [deps |-> deployments, calls |-> <<get>>, notFound |-> {},
                result |-> "running"]
    IN IF trouble = get THEN ReturnError(st0)
       ELSE IF deployments[name] = NoObj
       THEN [st0 EXCEPT !.notFound = {get}]
       ELSE reconcilePrometheusDeployment(st0, name, trouble)

\* Lines 149-168: the deployment is read; a Storage Workload is handed to
\* reconcilePrometheusDeployment.
runDeployment(name, trouble) ==
    LET get == Api("Get", "Deployment", name)
        st0 == [deps |-> deployments, calls |-> <<get>>, notFound |-> {},
                result |-> "running"]
        d == deployments[name]
    IN IF trouble = get THEN ReturnError(st0)
       ELSE IF d = NoObj THEN [st0 EXCEPT !.notFound = {get}]
       ELSE IF "app" \in DOMAIN d.labels /\ d.labels["app"] = "prometheus"
       THEN reconcilePrometheusDeployment(st0, name, trouble)
       ELSE st0

\* Lines 149-168, one delivery of a deployment key.
deliverDeployment(name, trouble) ==
      \E out \in {runDeployment(name, trouble)} :
        LET get == Api("Get", "Deployment", name)
            d == deployments[name]
        IN /\ trouble # NoTrouble => external < MaxExternal
           /\ external' = IF trouble # NoTrouble THEN external + 1 ELSE external
           /\ deployments' = out.deps
           /\ lastOp' = [op |-> "reconcileDeployment",
                         cluster |-> "",
                         deployment |-> name,
                         found |-> d # NoObj /\ trouble # get,
                         trouble |-> trouble,
                         result |-> Outcome(out),
                         calls |-> out.calls,
                         notFound |-> out.notFound,
                         reached |-> <<>>,
                         prev |-> ""]
           /\ UNCHANGED <<clusters, services, routes, prometheusURLs,
                          PrometheusImage, completion>>
           /\ UNCHANGED flightVars

reconcileDeployment(name) ==
    \E trouble \in Troubles(runDeployment(name, NoTrouble).calls) :
        deliverDeployment(name, trouble)

\* ------------------------------------------------------- external events

ExternalOp(what) ==
    [op |-> what, cluster |-> "", deployment |-> <<"", "">>,
     found |-> FALSE, trouble |-> NoTrouble, result |-> "nil",
     calls |-> <<>>, notFound |-> {}, reached |-> <<>>, prev |-> ""]

\* A user creates a MetricsCluster or rewrites its URL list.
ApplyCluster(c, urls) ==
    /\ external < MaxExternal
    /\ urls \in Declarable(c)
    /\ clusters[c] # [urls |-> urls]
    /\ clusters' = [clusters EXCEPT ![c] = [urls |-> urls]]
    /\ external' = external + 1
    /\ lastOp' = ExternalOp("ApplyCluster")
    /\ UNCHANGED <<deployments, services, routes, prometheusURLs,
                   PrometheusImage, completion>>
    /\ UNCHANGED flightVars

\* A user deletes a MetricsCluster.
DeleteCluster(c) ==
    /\ external < MaxExternal
    /\ clusters[c] # NoObj
    /\ clusters' = [clusters EXCEPT ![c] = NoObj]
    /\ external' = external + 1
    /\ lastOp' = ExternalOp("DeleteCluster")
    /\ UNCHANGED <<deployments, services, routes, prometheusURLs,
                   PrometheusImage, completion>>
    /\ UNCHANGED flightVars

\* The prowjob.json of a job is rewritten with another completion time
\* (none while the job runs).
RewriteJob(u, t) ==
    /\ external < MaxExternal
    /\ completion[u] # t
    /\ completion' = [completion EXCEPT ![u] = t]
    /\ external' = external + 1
    /\ lastOp' = ExternalOp("RewriteJob")
    /\ UNCHANGED <<clusters, deployments, services, routes, prometheusURLs,
                   PrometheusImage>>
    /\ UNCHANGED flightVars

\* The operator is restarted with a --prometheus-image flag (lines 106-113):
\* the new process has an empty cache.
Restart(image) ==
    /\ external < MaxExternal
    /\ PrometheusImage' = image
    /\ prometheusURLs' = EmptyMap
    /\ external' = external + 1
    /\ lastOp' = ExternalOp("Restart")
    /\ UNCHANGED <<clusters, deployments, services, routes, completion>>
    /\ UNCHANGED flightVars

\* ---------------------------------------------------------- specification

Init ==
    /\ clusters = [c \in ClusterNames |-> NoObj]
    /\ deployments = [n \in DeploymentNames |-> NoObj]
    /\ services = {}
    /\ routes = {}
    /\ prometheusURLs = EmptyMap
    /\ PrometheusImage = "prometheus:v1"
    /\ completion = [u \in URLs |-> 1]
    /\ external = 0
    /\ lastOp = ExternalOp("start")
    /\ prometheusLock = ""
    /\ callerPC = [p \in Callers |-> "idle"]
    /\ callerURL = [p \in Callers |-> ""]
    /\ succeeded = [u \in URLs |-> {}]
    /\ collector = Idle("none", <<"", "">>)

Next ==
    \/ \E c \in ClusterNames : reconcileMetricsCluster(c)
    \/ \E n \in DeploymentNames : reconcileDeployment(n)
    \/ \E c \in ClusterNames, urls \in URLLists : ApplyCluster(c, urls)
    \/ \E c \in ClusterNames : DeleteCluster(c)
    \/ \E u \in Rewritable, t \in Times : RewriteJob(u, t)
    \/ \E image \in Images : Restart(image)

Spec == Init /\ [][Next]_vars

\* ------------------------------------- findPrometheusTarURL, step by step

\* Line 243: a reconciliation calls findPrometheusTarURL(url, ...).
CallFind(p, u) ==
    /\ callerPC[p] = "idle"
    /\ callerPC' = [callerPC EXCEPT ![p] = "lock"]
    /\ callerURL' = [callerURL EXCEPT ![p] = u]
    /\ UNCHANGED <<prometheusLock, succeeded, prometheusURLs, storeVars>>

\* A variant without the mutex: the caller goes on whoever holds it.
LockNoWait(p) ==
    /\ callerPC[p] = "lock"
    /\ prometheusLock' = p
    /\ callerPC' = [callerPC EXCEPT ![p] = "read"]
    /\ UNCHANGED <<callerURL, succeeded, prometheusURLs, storeVars>>

\* Line 758: prometheusLock.Lock() waits until the mutex is free.
Lock(p) ==
    /\ callerPC[p] = "lock"
    /\ prometheusLock = ""
    /\ prometheusLock' = p
    /\ callerPC' = [callerPC EXCEPT ![p] = "read"]
    /\ UNCHANGED <<callerURL, succeeded, prometheusURLs, storeVars>>

\* A variant that gives the mutex up before the lookup (check-then-set
\* with the lookup outside the critical section).
ReadReleases(p) ==
    /\ callerPC[p] = "read"
    /\ IF callerURL[p] \in DOMAIN prometheusURLs
       THEN callerPC' = [callerPC EXCEPT ![p] = "return"]
            /\ UNCHANGED prometheusLock
       ELSE callerPC' = [callerPC EXCEPT ![p] = "lookup"]
            /\ prometheusLock' = ""
    /\ UNCHANGED <<callerURL, succeeded, prometheusURLs, storeVars>>

\* Lines 760-765: the map is read; a hit returns the stored URL.
Read(p) ==
    /\ callerPC[p] = "read"
    /\ callerPC' = [callerPC EXCEPT ![p] =
                        IF callerURL[p] \in DOMAIN prometheusURLs
                        THEN "return" ELSE "lookup"]
    /\ UNCHANGED <<prometheusLock, callerURL, succeeded, prometheusURLs,
                   storeVars>>

\* Lines 766-769: getTarURLFromProw answers; an error returns at once.
Lookup(p, ok) ==
    /\ callerPC[p] = "lookup"
    /\ callerPC' = [callerPC EXCEPT ![p] = IF ok THEN "store" ELSE "return"]
    /\ succeeded' = IF ok
                     THEN [succeeded EXCEPT ![callerURL[p]] = @ \cup {p}]
                     ELSE succeeded
    /\ UNCHANGED <<prometheusLock, callerURL, prometheusURLs, storeVars>>

\* Line 770: prometheusURLs[jobURL] = tarURL.
Store(p) ==
    /\ callerPC[p] = "store"
    /\ prometheusURLs' = Put(prometheusURLs, callerURL[p],
                              getTarURLFromProw(callerURL[p]))
    /\ callerPC' = [callerPC EXCEPT ![p] = "return"]
    /\ UNCHANGED <<prometheusLock, callerURL, succeeded, storeVars>>

\* Line 759: the deferred prometheusLock.Unlock() runs as the call returns.
Return(p) ==
    /\ callerPC[p] = "return"
    /\ prometheusLock' = ""
    /\ callerPC' = [callerPC EXCEPT ![p] = "idle"]
    /\ callerURL' = [callerURL EXCEPT ![p] = ""]
    /\ UNCHANGED <<succeeded, prometheusURLs, storeVars>>

CacheNext ==
    \/ \E p \in Callers, u \in URLs : CallFind(p, u)
    \/ \E p \in Callers : Lock(p)
    \/ \E p \in Callers : Read(p)
    \/ \E p \in Callers, ok \in BOOLEAN : Lookup(p, ok)
    \/ \E p \in Callers : Store(p)
    \/ \E p \in Callers : Return(p)

\* The calls of findPrometheusTarURL of one process, interleaved step by
\* step.
CacheSpec == Init /\ [][CacheNext]_vars

\* ------------------------------------- reconcileDeployment, step by step

\* The clusters a List returns.
Existing == {c \in ClusterNames : clusters[c] # NoObj}

\* Lines 153-165: the deployment is read.  A deployment that is not found
\* or is not labelled app=prometheus ends the delivery.
GetDeployment(n) ==
    /\ collector.pc = "idle"
    /\ collector' =
           IF deployments[n] = NoObj
           THEN Idle("not-found", n)
           ELSE IF "app" \in DOMAIN deployments[n].labels
                   /\ deployments[n].labels["app"] = "prometheus"
           THEN [pc |-> "list", name |-> n, deployment |-> deployments[n],
                 listed |-> {}, last |-> collector.last]
           ELSE Idle("not-prometheus", n)
    /\ UNCHANGED <<clusters, deployments, services, routes, prometheusURLs,
                   PrometheusImage, completion, external, lastOp, callVars>>

\* Lines 174-185: the clusters are listed and the deployment that was read
\* is tested against them.
ListClusters ==
    /\ collector.pc = "list"
    /\ collector' =
           IF isReferenced(collector.deployment, Existing)
           THEN Idle("referenced", collector.name)
           ELSE [collector EXCEPT !.pc = "delete", !.listed = Existing]
    /\ UNCHANGED <<clusters, deployments, services, routes, prometheusURLs,
                   PrometheusImage, completion, external, lastOp, callVars>>

\* Lines 186-196: the delete is applied by name, to whatever the
\* deployment is by now.
DeleteDeployment ==
    /\ collector.pc = "delete"
    /\ deployments' = [deployments EXCEPT ![collector.name] = NoObj]
    /\ collector' =
           Idle(IF deployments[collector.name] = NoObj
                THEN "delete-not-found" ELSE "deleted", collector.name)
    /\ UNCHANGED <<clusters, services, routes, prometheusURLs,
                   PrometheusImage, completion, external, lastOp, callVars>>

CollectorNext ==
    \/ \E n \in DeploymentNames : GetDeployment(n)
    \/ ListClusters
    \/ DeleteDeployment
    \/ \E c \in ClusterNames : deliverMetricsCluster(c, NoTrouble)
    \/ \E c \in ClusterNames, urls \in URLLists : ApplyCluster(c, urls)
    \/ \E c \in ClusterNames : DeleteCluster(c)
    \/ \E u \in Rewritable, t \in Times : RewriteJob(u, t)

\* reconcileDeployment step by step, interleaved with the deliveries of the
\* cluster keys and with the creation and deletion of clusters.
CollectorSpec == Init /\ [][CollectorNext]_vars

\* ------------------------------------------------------------ properties

IsMetricsClusterRun == lastOp.op = "reconcileMetricsCluster"
\* The last delivery was a cluster key on the exists path, ended nil and met
\* no trouble.
CleanClusterRun ==
    /\ IsMetricsClusterRun
    /\ lastOp.found
    /\ lastOp.trouble = NoTrouble
    /\ lastOp.result = "nil"

IsStorageWorkload(d) ==
    d # NoObj /\ "app" \in DOMAIN d.labels /\ d.labels["app"] = "prometheus"
\* The referencing labels of a workload: the clusters c with c=true on its
\* pod template.
Refs(d) ==
    {c \in ClusterNames :
        c \in DOMAIN d.spec.templateLabels /\ d.spec.templateLabels[c] = "true"}
\* The Storage Workloads that ingest job URL u.
WorkloadsOf(u) ==
    {n \in DeploymentNames :
        IsStorageWorkload(deployments[n]) /\ deployments[n].annotations.url = u}
WorkloadName(u) == <<"prometheus-", Hex(u)>>
PerClusterCreates(c) ==
    {Api("Create", "Service", thanosStoreServiceName(c)),
     Api("Create", "Deployment", thanosQueryDeploymentName(c)),
     Api("Create", "Service", thanosQueryServiceName(c)),
     Api("Create", "Route", thanosQueryRouteName(c))}
PerClusterGets(c) ==
    {Api("Get", "Service", thanosStoreServiceName(c)),
     Api("Get", "Deployment", thanosQueryDeploymentName(c)),
     Api("Get", "Service", thanosQueryServiceName(c)),
     Api("Get", "Route", thanosQueryRouteName(c))}

\* C1: once reconcileMetricsCluster has run to completion, without trouble,
\* for a cluster A and then for another cluster B that lists a job URL U of
\* A, exactly one Storage Workload exists for U and its pod-template labels
\* hold A=true and B=true.
C1_SharedWorkloadCarriesBothLabels ==
    (CleanClusterRun /\ lastOp.prev \in ClusterNames \ {lastOp.cluster}) =>
        \A u \in Range(clusters[lastOp.cluster].urls)
                    \cap Range(clusters[lastOp.prev].urls) :
            /\ Cardinality(WorkloadsOf(u)) = 1
            /\ \A n \in WorkloadsOf(u) :
                   {lastOp.cluster, lastOp.prev} \subseteq Refs(deployments[n])

\* C2: a write of reconcileMetricsCluster for cluster A to a Storage
\* Workload that exists keeps every referencing label the workload had: the
\* labels written are those present before together with A's.
C2_MergeKeepsOtherReferences ==
    [][\A n \in DeploymentNames :
          (/\ lastOp'.op = "reconcileMetricsCluster"
           /\ lastOp'.found
           /\ IsStorageWorkload(deployments[n])
           /\ deployments'[n] # deployments[n])
          => Refs(deployments'[n])
                 = Refs(deployments[n]) \cup {lastOp'.cluster}]_vars

\* C3: a delivery of the key of a cluster that no longer exists leaves no
\* Storage Workload carrying that cluster's referencing label (and deletes
\* none).
C3_DeletedClusterLabelRemoved ==
    (/\ IsMetricsClusterRun
     /\ ~lastOp.found
     /\ lastOp.trouble = NoTrouble
     /\ lastOp.result = "nil")
    => \A n \in DeploymentNames :
           deployments[n] # NoObj => lastOp.cluster \notin Refs(deployments[n])

\* C4: a Storage Workload that carries no referencing label of an existing
\* cluster is deleted by the reconcileDeployment delivered for it (when none
\* of its calls fails), and only reconcileDeployment deletes a Storage
\* Workload.
C4_UnreferencedWorkloadCollected ==
    [][\A n \in DeploymentNames :
          /\ (/\ lastOp'.op = "reconcileDeployment"
              /\ lastOp'.deployment = n
              /\ lastOp'.trouble = NoTrouble
              /\ IsStorageWorkload(deployments[n])
              /\ Refs(deployments[n]) \cap Existing = {})
             => deployments'[n] = NoObj
          /\ (IsStorageWorkload(deployments[n]) /\ deployments'[n] = NoObj)
             => lastOp'.op = "reconcileDeployment"]_vars

\* C5: a delivery of a cluster key that comes right after a delivery of the
\* same key that ended nil without trouble issues no create, update or
\* delete.
C5_SecondPassWritesNothing ==
    (CleanClusterRun /\ lastOp.prev = lastOp.cluster)
        => WriteCalls(lastOp.calls) = {}

\* C7: after a delivery of a cluster key that ended nil without trouble, the
\* stored spec of the Storage Workload of every job URL of the cluster is
\* the desired one: it runs the configured image.
C7_SpecChangePropagates ==
    CleanClusterRun =>
        \A u \in Range(clusters[lastOp.cluster].urls) :
            /\ deployments[WorkloadName(u)] # NoObj
            /\ deployments[WorkloadName(u)].spec.image = PrometheusImage

C8_FailedCreateReturnsAtOnce ==
    (IsMetricsClusterRun /\ lastOp.trouble \in PerClusterCreates(lastOp.cluster))
        => /\ lastOp.result = "error"
           /\ lastOp.calls[Len(lastOp.calls)] = lastOp.trouble

\* C8 (as claimed): after a failed create of a per-cluster object the
\* delivery returns an error and has still attempted every sub-step.
C8_FailedCreateOthersAttempted ==
    (IsMetricsClusterRun /\ lastOp.trouble \in PerClusterCreates(lastOp.cluster))
        => /\ lastOp.result = "error"
           /\ PerClusterGets(lastOp.cluster) \subseteq Range(lastOp.calls)

\* The create of the Store Service of cluster a failed.
C8_Witness ==
    /\ IsMetricsClusterRun
    /\ lastOp.trouble = Api("Create", "Service", thanosStoreServiceName("a"))
    /\ lastOp.result = "error"
    /\ thanosStoreServiceName("a") \notin services

\* C9 (as amended): when the job-metadata fetch of a job URL fails, the
\* delivery skips that job URL: it makes no artifact discovery for it and
\* does not reach its Storage Workload; a failed artifact discovery skips
\* the job URL in the same way.
C9_FailedFetchSkipsURL ==
    \A u \in URLs :
        /\ (IsMetricsClusterRun /\ lastOp.trouble = HttpGet(u))
           => /\ u \notin Range(lastOp.reached)
              /\ Discover(u) \notin Range(lastOp.calls)
              /\ Api("Get", "Deployment", WorkloadName(u))
                     \notin Range(lastOp.calls)
        /\ (IsMetricsClusterRun /\ lastOp.trouble = Discover(u))
           => u \notin Range(lastOp.reached)

\* C9 (as claimed): when the job-metadata fetch of a job URL fails, the
\* delivery goes on with that job URL and reaches its Storage Workload.
C9_FailedFetchStillConverges ==
    \A u \in URLs :
        (IsMetricsClusterRun /\ lastOp.trouble = HttpGet(u))
            => u \in Range(lastOp.reached)

\* The fetch of u1 failed in a delivery of a one-URL cluster, which ended
\* nil with no workload for u1.
C9_Witness ==
    /\ IsMetricsClusterRun
    /\ lastOp.trouble = HttpGet("u1")
    /\ clusters[lastOp.cluster].urls = <<"u1">>
    /\ lastOp.result = "nil"
    /\ deployments[WorkloadName("u1")] = NoObj

\* C10 (as amended): a delivery makes no artifact-discovery lookup for a
\* job URL the cache of the process holds, and still fetches the job
\* metadata of every job URL it converges.
C10_CachedURLIsNotLookedUp ==
    [][lastOp'.op = "reconcileMetricsCluster" =>
          \A u \in DOMAIN prometheusURLs :
              /\ Discover(u) \notin Range(lastOp'.calls)
              /\ u \in Range(lastOp'.reached)
                     => HttpGet(u) \in Range(lastOp'.calls)]_vars

\* C10 (as claimed): a delivery makes no network access at all for a job
\* URL the cache holds.
C10_CachedURLNoNetwork ==
    [][lastOp'.op = "reconcileMetricsCluster" =>
          \A u \in DOMAIN prometheusURLs :
              /\ Discover(u) \notin Range(lastOp'.calls)
              /\ HttpGet(u) \notin Range(lastOp'.calls)]_vars

\* A delivery converged a job URL from the cache: metadata fetched, no
\* lookup made.
C10_Witness ==
    /\ IsMetricsClusterRun
    /\ \E u \in DOMAIN prometheusURLs :
           /\ u \in Range(lastOp.reached)
           /\ HttpGet(u) \in Range(lastOp.calls)
           /\ Discover(u) \notin Range(lastOp.calls)

\* The calls to the API server among the calls of a delivery.
ApiOps == {"Get", "List", "Create", "Update", "Delete"}
IsApiCall(call) == call[1] \in ApiOps
IsReconcile == lastOp.op \in {"reconcileMetricsCluster", "reconcileDeployment"}

\* C11: a delivery, to either reconciler and on either path of
\* reconcileMetricsCluster, in which a get, list, create, update or delete
\* fails with an error other than not-found returns an error; the failed
\* call is the last one it makes.  (A delivery on the deleted-cluster path
\* issues no update, so none fails there.)
C11_ApiFailureReturnsError ==
    /\ (IsReconcile /\ IsApiCall(lastOp.trouble))
          => /\ lastOp.result = "error"
             /\ lastOp.calls[Len(lastOp.calls)] = lastOp.trouble
    /\ (IsMetricsClusterRun /\ ~lastOp.found
            /\ lastOp.trouble # Api("Get", "MetricsCluster", <<"", lastOp.cluster>>))
          => \A i \in DOMAIN lastOp.calls : lastOp.calls[i][1] # "Update"

\* The update of a Storage Workload failed on the exists path and the
\* delivery returned an error.
C11_Witness ==
    /\ IsMetricsClusterRun
    /\ lastOp.found
    /\ lastOp.trouble = Api("Update", "Deployment", WorkloadName("u1"))
    /\ lastOp.result = "error"

\* The list of the deployments failed on the deleted-cluster path and the
\* delivery returned an error.
C11_WitnessDeletedPath ==
    /\ IsMetricsClusterRun
    /\ ~lastOp.found
    /\ lastOp.trouble = Api("List", "Deployment", <<"", "">>)
    /\ lastOp.result = "error"

DecodeTroubles(u) == {DecodeSyntax(u), DecodeURL(u), DecodeOther(u)}

\* C12: when the job metadata fetched for a job URL of the cluster does not
\* decode (and every job of the cluster has completed), the delivery goes on
\* with that job URL, reaches its Storage Workload and ends without a crash.
C12_DecodeFailureStillConverges ==
    \A u \in URLs :
        (/\ IsMetricsClusterRun
         /\ lastOp.found
         /\ lastOp.trouble \in DecodeTroubles(u)
         /\ \A v \in Range(clusters[lastOp.cluster].urls) : completion[v] # 0)
        => /\ lastOp.result = "nil"
           /\ u \in Range(lastOp.reached)

\* The four per-cluster objects of cluster c in the order of lines 289-373.
PerClusterObjects(c) ==
    <<[kind |-> "Service", name |-> thanosStoreServiceName(c)],
      [kind |-> "Deployment", name |-> thanosQueryDeploymentName(c)],
      [kind |-> "Service", name |-> thanosQueryServiceName(c)],
      [kind |-> "Route", name |-> thanosQueryRouteName(c)]>>
IsStorageWrite(call) ==
    /\ call[1] \in {"Create", "Update"}
    /\ call[2] = "Deployment"
    /\ call[3][1] = "prometheus-"
Positions(calls, call) == {i \in DOMAIN calls : calls[i] = call}

\* C13: in a delivery of the key of an existing cluster every create or
\* update of a Storage Workload comes before every call on a per-cluster
\* object; the per-cluster objects are got in the order Store Service,
\* Aggregation Workload, Aggregation Service, External Route; an object is
\* created, right after its get, exactly when that get answered not-found,
\* and no other write is made on it.
C13_StorageFirstThenFixedOrder ==
    (IsMetricsClusterRun /\ lastOp.found) =>
        LET calls == lastOp.calls
            objs == PerClusterObjects(lastOp.cluster)
            get(k) == Api("Get", objs[k].kind, objs[k].name)
            create(k) == Api("Create", objs[k].kind, objs[k].name)
            firstGet == Positions(calls, get(1))
        IN /\ \A i \in DOMAIN calls :
                  IsStorageWrite(calls[i]) => \A j \in firstGet : i < j
           /\ \A k \in 1..4 :
                  /\ Cardinality(Positions(calls, get(k))) <= 1
                  /\ \A i \in Positions(calls, get(k)) :
                         /\ k > 1 =>
                                \E h \in Positions(calls, get(k - 1)) : h < i
                         /\ Positions(calls, create(k)) =
                                IF get(k) \in lastOp.notFound
                                THEN {i + 1} ELSE {}
                  /\ Positions(calls, get(k)) = {}
                         => Positions(calls, create(k)) = {}
                  /\ \A i \in DOMAIN calls :
                         (calls[i][2] = objs[k].kind
                              /\ calls[i][3] = objs[k].name)
                         => calls[i] \in {get(k), create(k)}

\* A delivery created a Storage Workload and then all four per-cluster
\* objects.
C13_Witness ==
    /\ IsMetricsClusterRun
    /\ lastOp.found
    /\ lastOp.result = "nil"
    /\ Api("Create", "Deployment", WorkloadName("u1")) \in Range(lastOp.calls)
    /\ PerClusterCreates(lastOp.cluster) \subseteq Range(lastOp.calls)

\* A delivery found the Store Service present, skipped it and created the
\* External Route.
C13_WitnessSkipped ==
    /\ IsMetricsClusterRun
    /\ lastOp.found
    /\ lastOp.result = "nil"
    /\ Api("Get", "Service", thanosStoreServiceName(lastOp.cluster))
           \in Range(lastOp.calls)
    /\ Api("Create", "Service", thanosStoreServiceName(lastOp.cluster))
           \notin Range(lastOp.calls)
    /\ Api("Create", "Route", thanosQueryRouteName(lastOp.cluster))
           \in Range(lastOp.calls)

\* The names of the per-cluster objects, by kind.
PerClusterNames(kind) ==
    {o.name : o \in {p \in UNION {Range(PerClusterObjects(c)) :
                                     c \in ClusterNames} : p.kind = kind}}

\* C14: no step removes or changes a Store Service, an Aggregation
\* Workload, an Aggregation Service or an External Route that exists, and
\* no delivery to reconcileMetricsCluster (either path) or to
\* reconcileDeployment issues an update or a delete on one.
C14_PerClusterObjectsNeverRewritten ==
    [][/\ services \subseteq services'
       /\ routes \subseteq routes'
       /\ \A n \in PerClusterNames("Deployment") :
              deployments[n] # NoObj => deployments'[n] = deployments[n]
       /\ \A i \in DOMAIN lastOp'.calls :
              LET call == lastOp'.calls[i]
              IN (call[1] \in {"Update", "Delete"}
                      /\ call[2] \in {"Service", "Deployment", "Route"})
                 => call[3] \notin PerClusterNames(call[2])]_vars

\* reconcileDeployment was delivered for an Aggregation Workload that
\* exists, after the operator was restarted with another image, and left it
\* in place.
C14_Witness ==
    /\ lastOp.op = "reconcileDeployment"
    /\ lastOp.deployment = thanosQueryDeploymentName("a")
    /\ lastOp.found
    /\ lastOp.result = "nil"
    /\ PrometheusImage = "prometheus:v2"
    /\ deployments[thanosQueryDeploymentName("a")]
           = thanosQueryDeploymentManifest("a")

\* C15: a delivery to reconcileDeployment whose get answers not-found ends
\* nil having made no other call; one whose delete of an unreferenced
\* workload answers not-found ends nil with that delete as its only write.
C15_NotFoundIsDone ==
    lastOp.op = "reconcileDeployment" =>
        LET get == Api("Get", "Deployment", lastOp.deployment)
            del == Api("Delete", "Deployment", lastOp.deployment)
        IN /\ get \in lastOp.notFound
                 => /\ lastOp.result = "nil"
                    /\ lastOp.calls = <<get>>
           /\ lastOp.trouble = DeleteGone(lastOp.deployment)
                 => /\ lastOp.result = "nil"
                    /\ {lastOp.calls[i] : i \in WriteCalls(lastOp.calls)}
                           = {del}
                    /\ lastOp.calls[Len(lastOp.calls)]
                           = DeleteGone(lastOp.deployment)
                    /\ deployments[lastOp.deployment] = NoObj

\* The delete of the unreferenced workload of u1 answered not-found and the
\* delivery ended nil.
C15_Witness ==
    /\ lastOp.op = "reconcileDeployment"
    /\ lastOp.trouble = DeleteGone(WorkloadName("u1"))
    /\ lastOp.result = "nil"

\* The get of a workload that does not exist answered not-found and the
\* delivery ended nil.
C15_WitnessGet ==
    /\ lastOp.op = "reconcileDeployment"
    /\ Api("Get", "Deployment", WorkloadName("u1")) \in lastOp.notFound
    /\ lastOp.result = "nil"

\* Every existing cluster has a Storage Workload for each of its job URLs
\* and its four per-cluster objects.
Converged ==
    \A c \in Existing :
        /\ \A u \in Range(clusters[c].urls) :
               deployments[WorkloadName(u)] # NoObj
        /\ thanosStoreServiceName(c) \in services
        /\ deployments[thanosQueryDeploymentName(c)] # NoObj
        /\ thanosQueryServiceName(c) \in services
        /\ thanosQueryRouteName(c) \in routes

\* The stores as a delivery in which nothing fails leaves them.
AfterMetricsCluster(c) ==
    LET out == runMetricsCluster(c, NoTrouble)
    IN <<out.deps, out.svcs, out.routes,
         IF out.result = "panic" THEN EmptyMap ELSE out.cache>>
\* No delivery of any cluster key or deployment key changes anything any
\* more: however often the dispatcher delivers the keys again, the system
\* stays in this state until an external change or a failure occurs.
Quiescent ==
    /\ \A c \in ClusterNames :
           AfterMetricsCluster(c)
               = <<deployments, services, routes, prometheusURLs>>
    /\ \A n \in DeploymentNames :
           runDeployment(n, NoTrouble).deps = deployments

\* C16: under fair re-delivery of every key, with no failures and no
\* further external changes, the system reaches and keeps a state in which
\* every existing cluster has its Storage Workloads and its four
\* per-cluster objects.  Stated on the states that re-delivery cannot
\* leave: a state in which no delivery changes anything is such a state.
C16_QuiescentIsConverged == Quiescent => Converged

\* The same, for the states in which no job is left running.
C16_QuiescentIsConvergedWhenCompleted ==
    (Quiescent /\ \A u \in URLs : completion[u] # 0) => Converged

Occurrences(calls, call) == Cardinality(Positions(calls, call))
\* The number of entries of a URL list that name job URL u.
Entries(urls, u) == Cardinality({i \in DOMAIN urls : urls[i] = u})
\* The Storage Workload name a delivery computes for job URL u.
NameFor(u, trouble) ==
    prometheusDeploymentName(
        [url |-> decodeProwJob(u, trouble).url])
StorageOps == {"Get", "Create", "Update"}

\* C17 (as amended): a delivery makes each call on a derived object at most
\* once, and each call bound to a job URL (the metadata fetch, the
\* artifact discovery, the get, create and update of its Storage Workload)
\* at most once per entry of the URL list that names the URL; a delivery
\* that returns an error made the failed call last.
C17_OncePerListEntry ==
    IsReconcile =>
        LET calls == lastOp.calls
            urls == IF IsMetricsClusterRun /\ lastOp.found
                    THEN clusters[lastOp.cluster].urls ELSE <<>>
            perURL == UNION {{HttpGet(u), Discover(u)}
                               \cup {Api(op, "Deployment",
                                         NameFor(u, lastOp.trouble)) :
                                        op \in StorageOps} : u \in Range(urls)}
        IN /\ \A u \in Range(urls) :
                  /\ Occurrences(calls, HttpGet(u)) <= Entries(urls, u)
                  /\ Occurrences(calls, Discover(u)) <= Entries(urls, u)
                  /\ \A op \in StorageOps :
                         Occurrences(calls, Api(op, "Deployment",
                                                NameFor(u, lastOp.trouble)))
                             <= Entries(urls, u)
           /\ \A i \in DOMAIN calls :
                  calls[i] \notin perURL => Occurrences(calls, calls[i]) = 1
           /\ lastOp.result = "error"
                  => calls[Len(calls)] = lastOp.trouble

\* C17 (as claimed): a delivery makes each call at most once per job URL
\* and per derived object: no call occurs twice among its calls.
C17_OncePerJobURL ==
    IsReconcile =>
        \A i \in DOMAIN lastOp.calls :
            Occurrences(lastOp.calls, lastOp.calls[i]) = 1

\* A cluster names u1 twice; the fetch of u1 fails and is made once for
\* each entry.
C17_Witness ==
    /\ IsMetricsClusterRun
    /\ lastOp.found
    /\ clusters[lastOp.cluster].urls = <<"u1", "u1">>
    /\ lastOp.trouble = HttpGet("u1")
    /\ Occurrences(lastOp.calls, HttpGet("u1")) = 2
    /\ lastOp.result = "nil"

\* C18: within the life of a process (no restart, no crash) every step
\* keeps each entry of the cache with the archive URL it holds, and a
\* delivery in which the artifact discovery of a job URL fails leaves no
\* entry for that job URL.
C18_CacheEntriesAreKept ==
    [][(lastOp'.op # "Restart" /\ lastOp'.result # "panic") =>
          /\ \A u \in DOMAIN prometheusURLs :
                 /\ u \in DOMAIN prometheusURLs'
                 /\ prometheusURLs'[u] = prometheusURLs[u]
          /\ \A u \in URLs :
                 lastOp'.trouble = Discover(u)
                     => u \notin DOMAIN prometheusURLs']_vars

\* The cache holds u1; a delivery in which the discovery of u2 failed kept
\* that entry, stored one for u3 and none for u2.
C18_Witness ==
    /\ IsMetricsClusterRun
    /\ lastOp.trouble = Discover("u2")
    /\ HttpGet("u1") \in Range(lastOp.calls)
    /\ Discover("u1") \notin Range(lastOp.calls)
    /\ DOMAIN prometheusURLs = {"u1", "u3"}
    /\ prometheusURLs["u1"] = getTarURLFromProw("u1")

IsPerClusterGet(call) ==
    /\ call[1] = "Get"
    /\ \/ call[2] \in {"Service", "Route"}
       \/ call[2] = "Deployment" /\ call[3][1] # "prometheus-"
\* The gets of per-cluster objects a delivery made, in their order.
PerClusterGetSeq == SelectSeq(lastOp.calls, IsPerClusterGet)

\* C19 (as amended): a delivery for cluster c that runs to its end asks for
\* the Store Service store-c, the Aggregation Workload query-c, the
\* Aggregation Service query-c and the External Route query-c: one prefix
\* for the Store Service and one shared by the other three, which differ
\* in kind or name pairwise; and a deployment that exists is a Storage
\* Workload exactly when its name starts with prometheus-, so that no
\* Aggregation Workload takes the name of a Storage Workload.
C19_StorePrefixAndSharedQueryPrefix ==
    /\ CleanClusterRun =>
           /\ PerClusterGetSeq =
                  <<Api("Get", "Service", <<"store-", lastOp.cluster>>),
                    Api("Get", "Deployment", <<"query-", lastOp.cluster>>),
                    Api("Get", "Service", <<"query-", lastOp.cluster>>),
                    Api("Get", "Route", <<"query-", lastOp.cluster>>)>>
           /\ Cardinality(Range(PerClusterGetSeq)) = 4
    /\ \A n \in DeploymentNames :
           deployments[n] # NoObj =>
               (IsStorageWorkload(deployments[n]) <=> n[1] = "prometheus-")

\* C19 (as claimed): the names a delivery for cluster c asks for are a
\* prefix followed by c, with four prefixes that differ from one kind of
\* object to the other, and no Aggregation Workload takes the name of a
\* Storage Workload.
C19_PrefixDistinctPerKind ==
    /\ CleanClusterRun =>
           /\ Len(PerClusterGetSeq) = 4
           /\ \A i \in 1..4 : PerClusterGetSeq[i][3][2] = lastOp.cluster
           /\ \A i, j \in 1..4 :
                  i # j => PerClusterGetSeq[i][3][1] # PerClusterGetSeq[j][3][1]
    /\ \A n \in DeploymentNames :
           deployments[n] # NoObj =>
               (IsStorageWorkload(deployments[n]) <=> n[1] = "prometheus-")

\* A delivery for cluster b ran to its end; the Aggregation Workload
\* query-b and the Storage Workload of u1 both exist.
C19_Witness ==
    /\ CleanClusterRun
    /\ lastOp.cluster = "b"
    /\ deployments[<<"query-", "b">>] # NoObj
    /\ deployments[WorkloadName("u1")] # NoObj
    /\ {<<"store-", "b">>, <<"query-", "b">>} \subseteq services
    /\ <<"query-", "b">> \in routes

\* The callers between Lock() and the deferred Unlock().
InCriticalSection == {p \in Callers : callerPC[p] \notin {"idle", "lock"}}

\* C20: under every interleaving of the calls of findPrometheusTarURL at
\* most one caller is between Lock() and Unlock(), and it holds the mutex
\* (reads and writes of the map exclude one another); no caller makes the
\* lookup for a job URL the map holds; and at most one lookup succeeds for
\* a job URL.
C20_LookupsAreSerialized ==
    /\ Cardinality(InCriticalSection) <= 1
    /\ \A p \in InCriticalSection : prometheusLock = p
    /\ \A p \in Callers :
           callerPC[p] \in {"lookup", "store"}
               => callerURL[p] \notin DOMAIN prometheusURLs
    /\ \A u \in URLs : Cardinality(succeeded[u]) <= 1

\* Caller w1 made the lookup of u1 and stored it; w2, called for u1 in the
\* meantime, got the stored URL without a lookup, while w3 waits for the
\* mutex.
C20_Witness ==
    /\ succeeded["u1"] = {"w1"}
    /\ "u1" \in DOMAIN prometheusURLs
    /\ callerPC["w2"] = "return"
    /\ callerURL["w2"] = "u1"
    /\ callerPC["w3"] = "lock"
    /\ callerURL["w3"] = "u1"

\* The step in which the delete of reconcileDeployment is applied.
DeleteApplied == collector.pc = "delete" /\ collector'.pc = "idle"

\* C21 (as amended): the delete that reconcileDeployment issues is for the
\* workload it read, and the pod-template labels it read hold no key that
\* is the name of a cluster its list returned; the step removes that
\* workload and touches no other.  (What the workload carries and which
\* clusters exist when the delete is applied is not looked at again.)
C21_DeletedWasUnreferencedWhenRead ==
    [][DeleteApplied =>
          /\ \A c \in collector.listed :
                 c \notin DOMAIN collector.deployment.spec.templateLabels
          /\ deployments'[collector.name] = NoObj
          /\ \A n \in DeploymentNames \ {collector.name} :
                 deployments'[n] = deployments[n]]_vars

\* C21 (as claimed): when the delete of reconcileDeployment is applied, the
\* workload carries no pod-template label key that is the name of an
\* existing cluster.
C21_DeletedIsUnreferencedWhenDeleted ==
    [][(DeleteApplied /\ deployments[collector.name] # NoObj) =>
          \A c \in Existing :
              c \notin DOMAIN deployments[collector.name].spec.templateLabels]_vars

\* The workload of u1 was read while no cluster existed and was deleted.
C21_Witness ==
    /\ collector.pc = "idle"
    /\ collector.last = "deleted"
    /\ collector.name = WorkloadName("u1")
    /\ deployments[WorkloadName("u1")] = NoObj

\* The delete of the workload of u1 is about to be applied, and cluster a,
\* whose label the workload carries, exists again.
C21_WitnessRace ==
    /\ collector.pc = "delete"
    /\ collector.name = WorkloadName("u1")
    /\ clusters["a"] # NoObj
    /\ "a" \in DOMAIN deployments[WorkloadName("u1")].spec.templateLabels

IsWorkloadGet(call) ==
    call[1] = "Get" /\ call[2] = "Deployment" /\ call[3][1] = "prometheus-"
\* The <<job URL, workload name>> pairs of a delivery: the Storage Workload
\* it asked for after the metadata fetch of each job URL (lines 234-256).
WorkloadsAskedFor(calls) ==
    {<<calls[i][3][2], calls[j][3]>> :
        <<i, j>> \in {ij \in (DOMAIN calls) \X (DOMAIN calls) :
                        /\ ij[1] < ij[2]
                        /\ calls[ij[1]][1] = "http.Get"
                        /\ IsWorkloadGet(calls[ij[2]])
                        /\ \A k \in (ij[1] + 1)..(ij[2] - 1) :
                               calls[k][1] # "http.Get"}}

\* C22: two distinct job URLs are never converged onto the same Storage
\* Workload: whenever deliveries reach the workload get for two distinct
\* job URLs (in one delivery or in two deliveries in a row, decode
\* failures included), the names they ask for differ.
C22_DistinctURLsDistinctWorkloads ==
    [][\A p \in WorkloadsAskedFor(lastOp'.calls) :
          \A q \in WorkloadsAskedFor(lastOp'.calls)
                       \cup WorkloadsAskedFor(lastOp.calls) :
              p[1] # q[1] => p[2] # q[2]]_vars

\* The same for the deliveries in which the metadata decodes: each job URL
\* is converged onto the workload named after its own hash.
C22_DistinctWhenDecoded ==
    (IsMetricsClusterRun
        /\ \A u \in URLs : lastOp.trouble \notin DecodeTroubles(u))
    => \A p \in WorkloadsAskedFor(lastOp.calls) : p[2] = WorkloadName(p[1])

====
